---- MODULE Spec2Model ----
(***************************************************************************)
(* logtui: the streaming scanner (src/lib/index.js, createScanner) and the *)
(* network registry (src/lib/config.js).                                   *)
(*                                                                         *)
(* Spec     the scanner: one createScanner call, the remote session, the   *)
(*          quit key.                                                      *)
(* SpecReg  the registry used as a library: module load, fetchNetworks,    *)
(*          getNetworkUrl, in any order, over several runs of the process. *)
(* SpecCli  the registry as the command line program calls it: main, then  *)
(*          the action handler up to getNetworkUrl.                        *)
(* SpecCache  saveNetworksToCache and loadNetworksFromCache on their own,  *)
(*          for a range of snapshots and cache files.                      *)
(***************************************************************************)
EXTENDS Integers, Sequences, FiniteSets, TLC

VARIABLES
  \* createScanner
  pc,              \* where createScanner is suspended
  eventSignatures, \* the eventSignatures option
  topic0ToName,
  eventCounts,
  fromBlock,       \* query.fromBlock
  height,          \* the value client.getHeight() resolved to
  progress,        \* the fraction last passed to updateProgressBar
  res,             \* the received batch while its iteration is suspended
  error,           \* the error caught by the catch of createScanner
  exitCode,        \* the argument of process.exit
  lastAwait,       \* how the most recent suspension ended
  heightFetches,   \* client.getHeight() calls issued
  sessions,        \* client.stream() calls issued
  recvIssued,      \* stream.recv() calls issued
  srvBlock,        \* the remote session: the nextBlock it delivered last
  \* config.js
  NETWORKS,
  cacheFile,       \* content of .networks-cache.json
  loaded,          \* the module-level code of config.js has run
  fetchRet,        \* outcome of the last fetchNetworks call
  apiRequests,     \* requests sent to NETWORKS_API_URL by this process
  lastCall,        \* the last registry operation and its argument
  effects,         \* the file and network operations of that operation, in order
  run,             \* the number of the running process
  lastDiscovery,   \* the last discovery that succeeded: its run, the records
                   \* of the response, its result and whether the cache file
                   \* was written
  cli,             \* the caller of the registry: a library user or the CLI
  urlRet           \* outcome of getNetworkUrl when it was the last operation

scanVars ==
  <<pc, eventSignatures, topic0ToName, eventCounts, fromBlock, height,
    progress, res, error, exitCode, lastAwait, heightFetches, sessions,
    recvIssued, srvBlock>>

regVars ==
  <<NETWORKS, cacheFile, loaded, fetchRet, apiRequests, lastCall, effects, run,
    lastDiscovery, cli, urlRet>>

vars == <<scanVars, regVars>>

(***************************************************************************)
(* Bounds                                                                  *)
(***************************************************************************)
MaxHeight == 2
MaxBlock == 3
MaxNulls == 1
MaxRecv == 3
MaxRequests == 2
MaxRuns == 2
MaxRecords == 2

(***************************************************************************)
(* Program constants                                                       *)
(***************************************************************************)
SampleEvery == 1000
KnownShown == 10

(***************************************************************************)
(* Signatures.  A signature string is a sequence of tokens; "(" and ")"    *)
(* are tokens of their own, so that split("(") can be computed.            *)
(***************************************************************************)
SigTransfer == <<"Transfer", "(", "address,address,uint256", ")">>
SigApproval == <<"Approval", "(", "address,address,uint256", ")">>
SigTransfer2 == <<"Transfer", "(", "address,uint256", ")">>
SigTotal == <<"Total", "(", "uint256", ")">>
SigUnknown == <<"Unknown", "(", "uint256", ")">>
SigAnon == <<"(", "uint256", ")">>
SigOther == <<"Swap", "(", "uint256", ")">>
SigApprovalForAll == <<"ApprovalForAll", "(", "address,address,bool", ")">>
SigPoolCreated == <<"PoolCreated", "(", "address,address,uint24,int24,address", ")">>
SigBurn == <<"Burn", "(", "address,int24,int24,uint128,uint256,uint256", ")">>
SigInitialize == <<"Initialize", "(", "uint160,int24", ")">>
SigMint == <<"Mint", "(", "address,address,int24,int24,uint128,uint256,uint256", ")">>
SigSwap == <<"Swap", "(", "address,address,int256,int256,uint160,uint128,int24", ")">>

\* The signature lists a scan may be started with.
SigSets ==
  { <<SigTransfer, SigApproval>>,
    <<SigTransfer, SigTransfer2>>,
    <<SigTotal>>,
    <<SigUnknown, SigAnon>> }

\* keccak256(toHex(sig)): a fixed digest per signature text, distinct texts
\* giving distinct digests.
Keccak256(sig) ==
  CASE sig = SigTransfer -> "0xddf252ad"
    [] sig = SigApproval -> "0x8c5be1e5"
    [] sig = SigTransfer2 -> "0x00000001"
    [] sig = SigTotal -> "0x00000002"
    [] sig = SigUnknown -> "0x00000003"
    [] sig = SigAnon -> "0x00000004"
    [] sig = SigOther -> "0x00000005"
    [] sig = SigApprovalForAll -> "0x17307eab"
    [] sig = SigPoolCreated -> "0x783cca1c"
    [] sig = SigBurn -> "0x0c396cd9"
    [] sig = SigInitialize -> "0x98636036"
    [] sig = SigMint -> "0x7a53080b"
    [] sig = SigSwap -> "0xc42079f9"

\* sig.split("(")[0]: the text before the first "(", the whole text when
\* there is none, "" when the text starts with "(".
RECURSIVE FirstParen(_, _)
FirstParen(sig, i) ==
  IF i > Len(sig) THEN i
  ELSE IF sig[i] = "(" THEN i ELSE FirstParen(sig, i + 1)

\* The tokens before the first "(" are a single token (the display name) or
\* none at all.
SplitName(sig) ==
  LET pre == SubSeq(sig, 1, FirstParen(sig, 1) - 1)
  IN IF pre = <<>> THEN "" ELSE pre[1]

\* eventSignatures.map((sig) => keccak256(toHex(sig)))
Topic0List(sigs) == [i \in 1..Len(sigs) |-> Keccak256(sigs[i])]

\* BuildTopic0ToName registering one identifier per display name only: a
\* signature whose name is already registered is left out
RECURSIVE BuildTopic0ToNameOncePerName(_, _)
BuildTopic0ToNameOncePerName(sigs, m) ==
  IF sigs = <<>> THEN m
  ELSE BuildTopic0ToNameOncePerName(Tail(sigs),
         IF \E t \in DOMAIN m : m[t] = SplitName(Head(sigs))
         THEN m
         ELSE (Keccak256(Head(sigs)) :> SplitName(Head(sigs))) @@ m)

\* eventSignatures.forEach: topic0ToName[topic0] = name (later entries
\* overwrite earlier ones).
RECURSIVE BuildTopic0ToName(_, _)
BuildTopic0ToName(sigs, m) ==
  IF sigs = <<>> THEN m
  ELSE BuildTopic0ToName(Tail(sigs),
         (Keccak256(Head(sigs)) :> SplitName(Head(sigs))) @@ m)

\* BuildEventCounts leaving the names to the first record that bears them
BuildEventCountsLazy(sigs, ec) == ec

\* eventCounts = {Total: 0, Unknown: 0}; eventCounts[name] = 0 per signature.
RECURSIVE BuildEventCounts(_, _)
BuildEventCounts(sigs, ec) ==
  IF sigs = <<>> THEN ec
  ELSE BuildEventCounts(Tail(sigs), (SplitName(Head(sigs)) :> 0) @@ ec)

EmptyMap == [k \in {} |-> 0]
BaseCounts == ("Total" :> 0) @@ ("Unknown" :> 0)


(***************************************************************************)
(* Numbers: the results of the one division the scanner makes.             *)
(***************************************************************************)
Num(a, b) == [t |-> "num", n |-> a, d |-> b]
Infinity == [t |-> "inf", n |-> 1, d |-> 0]
NaN == [t |-> "nan", n |-> 0, d |-> 0]
Zero == Num(0, 1)
One == Num(1, 1)

\* a / b in IEEE arithmetic, for a >= 0 and b >= 0
Div(a, b) ==
  IF b = 0 THEN (IF a = 0 THEN NaN ELSE Infinity) ELSE Num(a, b)

\* x <= y; every comparison with NaN is false
Leq(x, y) ==
  /\ x.t # "nan"
  /\ y.t # "nan"
  /\ \/ y.t = "inf"
     \/ x.t = "num" /\ y.t = "num" /\ x.n * y.d <= y.n * x.d

\* Math.min(x, 1): NaN when x is NaN
MathMin1(x) ==
  IF x.t = "nan" THEN NaN
  ELSE IF Leq(x, One) THEN x ELSE One

(***************************************************************************)
(* Records and batches delivered by the remote session.  data.logs is a    *)
(* sequence of runs, a run being n consecutive identical records.          *)
(***************************************************************************)
NoTopics == [t |-> "absent", items |-> <<>>]
NonArrayTopics == [t |-> "string", items |-> <<>>]
Topics(s) == [t |-> "array", items |-> s]
NullLog == [kind |-> "null", topics |-> NoTopics]
Log(tp) == [kind |-> "log", topics |-> tp]

\* first topics the remote may put on a record for a given signature list:
\* the filtered identifiers and one identifier outside the filter
TopicValues(sigs) ==
  {Keccak256(sigs[i]) : i \in 1..Len(sigs)} \cup {Keccak256(SigOther)}

\* the records that are not null
LogValues(sigs) ==
  {Log(NoTopics), Log(NonArrayTopics), Log(Topics(<<>>))}
    \cup {Log(Topics(<<tv>>)) : tv \in TopicValues(sigs)}

RunLens == {1, 2, SampleEvery}

Runs(sigs) == [rec : LogValues(sigs), n : RunLens]

\* k null entries
Nulls(k) == IF k = 0 THEN <<>> ELSE <<[rec |-> NullLog, n |-> k]>>

\* data.logs: up to MaxNulls null entries, then at most one run of records
LogsValues(sigs) ==
  {Nulls(k) \o tl : k \in 0..MaxNulls,
                    tl \in {<<>>} \cup {<<r>> : r \in Runs(sigs)}}

\* res.data: absent, without logs, with logs that are no array, or with a
\* logs array
DataValues(sigs) ==
  {[t |-> "absent", logs |-> <<>>],
   [t |-> "nologs", logs |-> <<>>],
   [t |-> "nonarray", logs |-> <<>>]}
    \cup {[t |-> "array", logs |-> l] : l \in LogsValues(sigs)}

\* the data values per signature list a scan may be started with
DataValuesFor == [sigs \in SigSets \cup {<<>>} |-> DataValues(sigs)]

\* a received object: hasNext is FALSE when the nextBlock field is missing.
\* The session delivers its cursors in non-decreasing order, from being the
\* one it delivered last.
Batches(sigs, from) ==
  {[hasNext |-> TRUE, nextBlock |-> nb, data |-> d] :
      nb \in from..MaxBlock, d \in DataValuesFor[sigs]}
    \cup {[hasNext |-> FALSE, nextBlock |-> 0, data |-> d] : d \in DataValuesFor[sigs]}

NoRes == [hasNext |-> FALSE, nextBlock |-> 0, data |-> [t |-> "absent", logs |-> <<>>]]

\* NoNextBlock testing for a missing field only
NoNextBlockMissingOnly(b) == ~b.hasNext

\* !res.nextBlock
NoNextBlock(b) == ~b.hasNext \/ b.nextBlock = 0

RECURSIVE LogsLength(_)
LogsLength(runs) ==
  IF runs = <<>> THEN 0 ELSE Head(runs).n + LogsLength(Tail(runs))

\* res.data && res.data.logs && Array.isArray(res.data.logs) &&
\* res.data.logs.length > 0
HasLogs(b) == b.data.t = "array" /\ LogsLength(b.data.logs) > 0

\* !log.topics || !Array.isArray(log.topics) || !log.topics[0]
NoTopic0(log) ==
  \/ log.topics.t # "array"
  \/ log.topics.items = <<>>
  \/ log.topics.items[1] = ""

Inc(ec, k) == [ec EXCEPT ![k] = @ + 1]

\* topic0ToName[topic0] || "Unknown"
EventName(t0ToName, topic0) ==
  IF topic0 \in DOMAIN t0ToName /\ t0ToName[topic0] # ""
  THEN t0ToName[topic0] ELSE "Unknown"

\* the body of res.data.logs.forEach for one record
CountLog(ec, t0ToName, log) ==
  IF log.kind = "null" THEN ec
  ELSE LET ec1 == Inc(ec, "Total")
       IN IF NoTopic0(log) THEN Inc(ec1, "Unknown")
          ELSE LET eventName == EventName(t0ToName, log.topics.items[1])
               IN IF eventName = "Unknown" THEN Inc(ec1, "Unknown")
                  ELSE IF eventName \in DOMAIN ec1 THEN Inc(ec1, eventName)
                  ELSE (eventName :> 1) @@ ec1

\* the body applied to the n records of a run: every application adds the
\* same amounts, those the first one adds
CountRun(ec, t0ToName, log, n) ==
  LET one == CountLog(ec, t0ToName, log)
  IN [k \in DOMAIN one |->
        IF k \in DOMAIN ec THEN ec[k] + n * (one[k] - ec[k]) ELSE n * one[k]]

\* res.data.logs.forEach(...)
RECURSIVE CountLogs(_, _, _)
CountLogs(ec, t0ToName, runs) ==
  IF runs = <<>> THEN ec
  ELSE CountLogs(CountRun(ec, t0ToName, Head(runs).rec, Head(runs).n),
                 t0ToName, Tail(runs))

\* eventCounts.Total % 1000 === 0 && res.data.logs[0]
SampleDue(ec, b) ==
  /\ ec["Total"] % SampleEvery = 0
  /\ Head(b.data.logs).rec.kind # "null"

\* Progress without the clamp
ProgressNoClamp(nextBlock, h) == Div(nextBlock, h)

\* Math.min(res.nextBlock / height, 1)
Progress(nextBlock, h) == MathMin1(Div(nextBlock, h))


(***************************************************************************)
(* createScanner (src/lib/index.js).  One action per stretch of code       *)
(* between two suspension points.                                          *)
(***************************************************************************)
Awaiting == {"getHeight", "stream", "recv", "decode", "completeWait", "failedWait"}

\* Catch ending the process at once
CatchExits(cause) ==
  /\ error' = cause
  /\ pc' = "exited"

\* catch (error) { ...; await new Promise(5000 ms) }
Catch(cause) ==
  /\ error' = cause
  /\ pc' = "failedWait"

\* createScanner up to its first suspension, const height = await
\* client.getHeight()
CreateScanner(sigs) ==
  /\ pc = "idle"
  /\ eventSignatures' = sigs
  /\ fromBlock' = 0
  /\ eventCounts' = BuildEventCounts(sigs, BaseCounts)
  /\ topic0ToName' = BuildTopic0ToName(sigs, EmptyMap)
  /\ heightFetches' = heightFetches + 1
  /\ pc' = "getHeight"
  /\ UNCHANGED <<height, progress, res, error, exitCode, lastAwait, sessions,
                 recvIssued, srvBlock>>
  /\ UNCHANGED regVars

\* Decoder.fromSignatures rejects a signature it cannot parse: one without a
\* name followed by "("
Parsable(sig) == FirstParen(sig, 1) = 2 /\ Len(sig) > 2

\* getHeight resolves; decoder built; client.stream(query, {}) issued
HeightResolved(h) ==
  /\ pc = "getHeight"
  /\ height' = h
  /\ lastAwait' = "height"
  /\ sessions' = sessions + 1
  /\ pc' = "stream"
  /\ UNCHANGED <<eventSignatures, topic0ToName, eventCounts, fromBlock,
                 progress, res, error, exitCode, heightFetches, recvIssued,
                 srvBlock>>
  /\ UNCHANGED regVars

\* getHeight resolves; Decoder.fromSignatures throws
DecoderThrows(h) ==
  /\ pc = "getHeight"
  /\ \E i \in 1..Len(eventSignatures) : ~Parsable(eventSignatures[i])
  /\ height' = h
  /\ lastAwait' = "height"
  /\ Catch("decoder")
  /\ UNCHANGED <<eventSignatures, topic0ToName, eventCounts, fromBlock,
                 progress, res, exitCode, heightFetches, sessions, recvIssued,
                 srvBlock>>
  /\ UNCHANGED regVars

\* getHeight rejects
HeightFails ==
  /\ pc = "getHeight"
  /\ lastAwait' = "heightError"
  /\ Catch("getHeight")
  /\ UNCHANGED <<eventSignatures, topic0ToName, eventCounts, fromBlock, height,
                 progress, res, exitCode, heightFetches, sessions, recvIssued,
                 srvBlock>>
  /\ UNCHANGED regVars

\* StreamOpened asking for the height again
StreamOpenedRefetches ==
  /\ pc = "stream"
  /\ lastAwait' = "session"
  /\ progress' = Zero
  /\ recvIssued' = recvIssued + 1
  /\ heightFetches' = heightFetches + 1
  /\ height' = IF height < MaxHeight THEN height + 1 ELSE height
  /\ pc' = "recv"
  /\ UNCHANGED <<eventSignatures, topic0ToName, eventCounts, fromBlock,
                 res, error, exitCode, sessions, srvBlock>>
  /\ UNCHANGED regVars

\* client.stream resolves; updateProgressBar(0, ...); first stream.recv()
StreamOpened ==
  /\ pc = "stream"
  /\ lastAwait' = "session"
  /\ progress' = Zero
  /\ recvIssued' = recvIssued + 1
  /\ pc' = "recv"
  /\ UNCHANGED <<eventSignatures, topic0ToName, eventCounts, fromBlock, height,
                 res, error, exitCode, heightFetches, sessions, srvBlock>>
  /\ UNCHANGED regVars

\* client.stream rejects
StreamFails ==
  /\ pc = "stream"
  /\ lastAwait' = "sessionError"
  /\ Catch("stream")
  /\ UNCHANGED <<eventSignatures, topic0ToName, eventCounts, fromBlock, height,
                 progress, res, exitCode, heightFetches, sessions, recvIssued,
                 srvBlock>>
  /\ UNCHANGED regVars

\* RecvNull with the progress computed from the cursor instead of forced
RecvNullComputed ==
  /\ pc = "recv"
  /\ lastAwait' = "null"
  /\ progress' = MathMin1(Div(fromBlock, height))
  /\ pc' = "completeWait"
  /\ UNCHANGED <<eventSignatures, topic0ToName, eventCounts, fromBlock, height,
                 res, error, exitCode, heightFetches, sessions, recvIssued,
                 srvBlock>>
  /\ UNCHANGED regVars

\* res === null: updateProgressBar(1, ...); break; final summary; the long
\* wait
RecvNull ==
  /\ pc = "recv"
  /\ lastAwait' = "null"
  /\ progress' = One
  /\ pc' = "completeWait"
  /\ UNCHANGED <<eventSignatures, topic0ToName, eventCounts, fromBlock, height,
                 res, error, exitCode, heightFetches, sessions, recvIssued,
                 srvBlock>>
  /\ UNCHANGED regVars

\* RecvFails with the receive issued again
RecvFailsRetries ==
  /\ pc = "recv"
  /\ recvIssued < MaxRecv
  /\ lastAwait' = "recvError"
  /\ error' = "recv"
  /\ recvIssued' = recvIssued + 1
  /\ UNCHANGED <<pc, eventSignatures, topic0ToName, eventCounts, fromBlock,
                 height, progress, res, exitCode, heightFetches, sessions,
                 srvBlock>>
  /\ UNCHANGED regVars

\* stream.recv rejects
RecvFails ==
  /\ pc = "recv"
  /\ lastAwait' = "recvError"
  /\ Catch("recv")
  /\ UNCHANGED <<eventSignatures, topic0ToName, eventCounts, fromBlock, height,
                 progress, res, exitCode, heightFetches, sessions, recvIssued,
                 srvBlock>>
  /\ UNCHANGED regVars

\* the rest of a loop iteration, from the cursor update to the next
\* stream.recv()
FinishIteration(b) ==
  /\ fromBlock' = IF NoNextBlock(b) THEN fromBlock ELSE b.nextBlock
  /\ progress' = Progress(b.nextBlock, height)
  /\ recvIssued' = recvIssued + 1
  /\ res' = NoRes
  /\ pc' = "recv"

\* RecvNoCursor with the cursor taken over before the check
RecvNoCursorResets(b) ==
  /\ pc = "recv"
  /\ recvIssued < MaxRecv
  /\ NoNextBlock(b)
  /\ lastAwait' = "nocursor"
  /\ recvIssued' = recvIssued + 1
  /\ fromBlock' = b.nextBlock
  /\ UNCHANGED <<pc, eventSignatures, topic0ToName, eventCounts, height,
                 progress, res, error, exitCode, heightFetches, sessions, srvBlock>>
  /\ UNCHANGED regVars

\* RecvNoCursor with the records counted before the check
RecvNoCursorCounts(b) ==
  /\ pc = "recv"
  /\ recvIssued < MaxRecv
  /\ NoNextBlock(b)
  /\ lastAwait' = "nocursor"
  /\ recvIssued' = recvIssued + 1
  /\ eventCounts' = IF HasLogs(b)
                     THEN CountLogs(eventCounts, topic0ToName, b.data.logs)
                     ELSE eventCounts
  /\ UNCHANGED <<pc, eventSignatures, topic0ToName, fromBlock, height,
                 progress, res, error, exitCode, heightFetches, sessions, srvBlock>>
  /\ UNCHANGED regVars

\* if (!res.nextBlock) { warn; continue }
RecvNoCursor(b) ==
  /\ pc = "recv"
  /\ recvIssued < MaxRecv
  /\ NoNextBlock(b)
  /\ lastAwait' = "nocursor"
  /\ recvIssued' = recvIssued + 1
  /\ UNCHANGED <<pc, eventSignatures, topic0ToName, eventCounts, fromBlock,
                 height, progress, res, error, exitCode, heightFetches,
                 sessions, srvBlock>>
  /\ UNCHANGED regVars

\* RecvBatch leaving the cursor where it is when the batch has no records
RecvBatchSkipsEmpty(b) ==
  /\ pc = "recv"
  /\ recvIssued < MaxRecv
  /\ ~NoNextBlock(b)
  /\ lastAwait' = "batch"
  /\ srvBlock' = b.nextBlock
  /\ eventCounts' = IF HasLogs(b)
                     THEN CountLogs(eventCounts, topic0ToName, b.data.logs)
                     ELSE eventCounts
  /\ IF HasLogs(b) /\ SampleDue(eventCounts', b)
     THEN /\ pc' = "decode"
          /\ res' = b
          /\ UNCHANGED <<fromBlock, progress, recvIssued>>
     ELSE IF HasLogs(b) THEN FinishIteration(b)
     ELSE /\ recvIssued' = recvIssued + 1
          /\ UNCHANGED <<pc, fromBlock, progress, res>>
  /\ UNCHANGED <<eventSignatures, topic0ToName, height, error, exitCode,
                 heightFetches, sessions>>
  /\ UNCHANGED regVars

\* RecvBatch asking for the next batch before the sample is decoded
RecvBatchPrefetches(b) ==
  /\ pc = "recv"
  /\ recvIssued < MaxRecv
  /\ ~NoNextBlock(b)
  /\ lastAwait' = "batch"
  /\ srvBlock' = b.nextBlock
  /\ eventCounts' = IF HasLogs(b)
                     THEN CountLogs(eventCounts, topic0ToName, b.data.logs)
                     ELSE eventCounts
  /\ IF HasLogs(b) /\ SampleDue(eventCounts', b)
     THEN /\ pc' = "decode"
          /\ res' = b
          /\ recvIssued' = recvIssued + 1
          /\ UNCHANGED <<fromBlock, progress>>
     ELSE FinishIteration(b)
  /\ UNCHANGED <<eventSignatures, topic0ToName, height, error, exitCode,
                 heightFetches, sessions>>
  /\ UNCHANGED regVars

\* a batch with a cursor: count its records, then either suspend in
\* decoder.decodeLogs or finish the iteration
RecvBatch(b) ==
  /\ pc = "recv"
  /\ recvIssued < MaxRecv
  /\ ~NoNextBlock(b)
  /\ lastAwait' = "batch"
  /\ srvBlock' = b.nextBlock
  /\ eventCounts' = IF HasLogs(b)
                     THEN CountLogs(eventCounts, topic0ToName, b.data.logs)
                     ELSE eventCounts
  /\ IF HasLogs(b) /\ SampleDue(eventCounts', b)
     THEN /\ pc' = "decode"
          /\ res' = b
          /\ UNCHANGED <<fromBlock, progress, recvIssued>>
     ELSE FinishIteration(b)
  /\ UNCHANGED <<eventSignatures, topic0ToName, height, error, exitCode,
                 heightFetches, sessions>>
  /\ UNCHANGED regVars

\* decoder.decodeLogs resolves
DecodeDone ==
  /\ pc = "decode"
  /\ lastAwait' = "decoded"
  /\ FinishIteration(res)
  /\ UNCHANGED <<eventSignatures, topic0ToName, eventCounts, height, error,
                 exitCode, heightFetches, sessions, srvBlock>>
  /\ UNCHANGED regVars

\* DecodeFails ending in the outer catch block
DecodeFailsFatal ==
  /\ pc = "decode"
  /\ lastAwait' = "decodeError"
  /\ Catch("decode")
  /\ UNCHANGED <<eventSignatures, topic0ToName, eventCounts, fromBlock, height,
                 progress, res, exitCode, heightFetches, sessions, recvIssued,
                 srvBlock>>
  /\ UNCHANGED regVars

\* decoder.decodeLogs rejects: catch (decodeError) { warn }
DecodeFails ==
  /\ pc = "decode"
  /\ lastAwait' = "decodeError"
  /\ FinishIteration(res)
  /\ UNCHANGED <<eventSignatures, topic0ToName, eventCounts, height, error,
                 exitCode, heightFetches, sessions, srvBlock>>
  /\ UNCHANGED regVars

\* QuitKey heard only while a batch is awaited
QuitKeyWhileStreaming ==
  /\ pc = "recv"
  /\ lastAwait' = "key"
  /\ exitCode' = 0
  /\ pc' = "exited"
  /\ UNCHANGED <<eventSignatures, topic0ToName, eventCounts, fromBlock, height,
                 progress, res, error, heightFetches, sessions, recvIssued,
                 srvBlock>>
  /\ UNCHANGED regVars

\* screen.key(["escape", "q", "C-c"]): process.exit(0)
QuitKey ==
  /\ pc \in Awaiting
  /\ lastAwait' = "key"
  /\ exitCode' = 0
  /\ pc' = "exited"
  /\ UNCHANGED <<eventSignatures, topic0ToName, eventCounts, fromBlock, height,
                 progress, res, error, heightFetches, sessions, recvIssued,
                 srvBlock>>
  /\ UNCHANGED regVars

\* the 5 s timer of the catch block fires: process.exit(1)
FailedWaitElapsed ==
  /\ pc = "failedWait"
  /\ lastAwait' = "timer"
  /\ exitCode' = 1
  /\ pc' = "exited"
  /\ UNCHANGED <<eventSignatures, topic0ToName, eventCounts, fromBlock, height,
                 progress, res, error, heightFetches, sessions, recvIssued,
                 srvBlock>>
  /\ UNCHANGED regVars

\* CompleteWaitElapsed ending in the catch block
CompleteWaitElapsedThrows ==
  /\ pc = "completeWait"
  /\ lastAwait' = "timer"
  /\ Catch("summary")
  /\ UNCHANGED <<eventSignatures, topic0ToName, eventCounts, fromBlock, height,
                 progress, res, exitCode, heightFetches, sessions,
                 recvIssued, srvBlock>>
  /\ UNCHANGED regVars

\* the 1000000000 ms timer after the final summary fires: createScanner
\* returns
CompleteWaitElapsed ==
  /\ pc = "completeWait"
  /\ lastAwait' = "timer"
  /\ pc' = "returned"
  /\ UNCHANGED <<eventSignatures, topic0ToName, eventCounts, fromBlock, height,
                 progress, res, error, exitCode, heightFetches, sessions,
                 recvIssued, srvBlock>>
  /\ UNCHANGED regVars

\* config.js is not part of the scanner's run
RegIdle ==
  /\ NETWORKS = EmptyMap
  /\ cacheFile = [st |-> "absent", text |-> [t |-> "garbage", pairs |-> <<>>]]
  /\ loaded = FALSE
  /\ fetchRet = [kind |-> "none", val |-> [t |-> "null", map |-> EmptyMap]]
  /\ apiRequests = 0
  /\ lastCall = [op |-> "none", force |-> FALSE, path |-> "none", name |-> "", ok |-> TRUE,
                 partial |-> EmptyMap]
  /\ effects = <<>>
  /\ run = 1
  /\ lastDiscovery = [run |-> 0, records |-> <<>>, result |-> EmptyMap, written |-> FALSE]
  /\ cli = [pc |-> "library", refreshNetworks |-> FALSE, list |-> FALSE,
            network |-> "", exitCode |-> -1, networkUrl |-> <<>>,
            preset |-> "", custom |-> FALSE, refreshed |-> FALSE,
   presetArg |-> "",
            eventSignatures |-> [defined |-> FALSE, sigs |-> <<>>]]
  /\ urlRet = [kind |-> "none", url |-> <<>>, name |-> "", known |-> <<>>]

ScanIdle ==
  /\ pc = "idle"
  /\ eventSignatures = <<>>
  /\ topic0ToName = EmptyMap
  /\ eventCounts = BaseCounts
  /\ fromBlock = 0
  /\ height = 0
  /\ progress = Zero
  /\ res = NoRes
  /\ error = "none"
  /\ exitCode = -1
  /\ lastAwait = "none"
  /\ heightFetches = 0
  /\ sessions = 0
  /\ recvIssued = 0
  /\ srvBlock = 0

Init == ScanIdle /\ RegIdle

Next ==
  \/ \E sigs \in SigSets : CreateScanner(sigs)
  \/ \E h \in 0..MaxHeight : HeightResolved(h)
  \/ \E h \in 0..MaxHeight : DecoderThrows(h)
  \/ HeightFails
  \/ StreamOpened
  \/ StreamFails
  \/ RecvNull
  \/ RecvFails
  \/ \E b \in Batches(eventSignatures, srvBlock) : RecvNoCursor(b)
  \/ \E b \in Batches(eventSignatures, srvBlock) : RecvBatch(b)
  \/ DecodeDone
  \/ DecodeFails
  \/ QuitKey
  \/ FailedWaitElapsed
  \/ CompleteWaitElapsed

Spec == Init /\ [][Next]_vars

\* The remote side answers: every awaited promise of the scan settles, and
\* the session ends after at most MaxRecv receives with the sentinel or an
\* error.  The quit key and the timers may or may not come.
HeightSettles ==
  \/ \E h \in 0..MaxHeight : HeightResolved(h)
  \/ \E h \in 0..MaxHeight : DecoderThrows(h)
  \/ HeightFails

StreamSettles == StreamOpened \/ StreamFails

RecvSettles ==
  \/ RecvNull
  \/ RecvFails
  \/ \E b \in Batches(eventSignatures, srvBlock) : RecvNoCursor(b)
  \/ \E b \in Batches(eventSignatures, srvBlock) : RecvBatch(b)

DecodeSettles == DecodeDone \/ DecodeFails

SpecLive ==
  /\ Init
  /\ [][Next]_vars
  /\ WF_vars(HeightSettles)
  /\ WF_vars(StreamSettles)
  /\ WF_vars(RecvSettles)
  /\ WF_vars(DecodeSettles)

(***************************************************************************)
(* The network registry (src/lib/config.js)                                *)
(***************************************************************************)
DefaultNames == {"eth", "arbitrum", "optimism", "base", "polygon"}
ExtraNames == {"gnosis", "sepolia"}

\* `http://${network.name}.hypersync.xyz`
Url(name) == <<"http://", name, ".hypersync.xyz">>
CustomUrl == <<"http://", "localhost", ":1080">>

DEFAULT_NETWORKS == [n \in DefaultNames |-> Url(n)]

\* A JSON value in memory: its type and, for objects and arrays, its own
\* enumerable properties (an array's are its indices).
Obj(m) == [t |-> "object", map |-> m]
SixItems == [t |-> "array", map |-> [i \in {"0", "1", "2", "3", "4", "5"} |-> <<"item">>]]
JsonNull == [t |-> "null", map |-> EmptyMap]
JsonNumber == [t |-> "number", map |-> EmptyMap]

\* Object.keys(v): a TypeError for null
KeysThrows(v) == v.t = "null"
Keys(v) == DOMAIN v.map

\* { ...v }
Spread(v) == v.map

\* The text of a JSON document: its type and its members in the order they
\* are written.
RECURSIVE ToPairs(_)
ToPairs(m) ==
  IF DOMAIN m = {} THEN <<>>
  ELSE LET k == CHOOSE x \in DOMAIN m : TRUE
       IN <<<<k, m[k]>>>> \o ToPairs([x \in DOMAIN m \ {k} |-> m[x]])

RECURSIVE FromPairs(_)
FromPairs(ps) ==
  IF ps = <<>> THEN EmptyMap
  ELSE LET rest == FromPairs(SubSeq(ps, 1, Len(ps) - 1))
           last == ps[Len(ps)]
       IN (last[1] :> last[2]) @@ rest

\* JSON.stringify(networks, null, 2)
JSONstringify(v) == [t |-> v.t, pairs |-> ToPairs(v.map)]

\* JSON.parse(data): a SyntaxError for a text that is no JSON
ParseThrows(text) == text.t = "garbage"
JSONparse(text) == [t |-> text.t, map |-> FromPairs(text.pairs)]

Garbage == [t |-> "garbage", pairs |-> <<>>]

\* .networks-cache.json: absent, present but unreadable, or a text
NoFile == [st |-> "absent", text |-> Garbage]
Unreadable == [st |-> "unreadable", text |-> Garbage]
File(text) == [st |-> "text", text |-> text]

\* the cache files a process may find when it starts
CacheFiles ==
  {NoFile, Unreadable, File(Garbage)}
    \cup {File(JSONstringify(v)) : v \in
           {JsonNull, JsonNumber, SixItems,
            Obj(EmptyMap),
            Obj([n \in {"eth"} |-> CustomUrl]),
            Obj(DEFAULT_NETWORKS),
            Obj([n \in DefaultNames \cup {"gnosis"} |-> Url(n)]),
            Obj([n \in (DefaultNames \ {"eth"}) \cup ExtraNames |-> Url(n)])}}

\* loadNetworksFromCache taking a cache without entries for no cache
loadNetworksFromCacheNonEmpty(file) ==
  IF file.st = "text" /\ ~ParseThrows(file.text)
       /\ DOMAIN JSONparse(file.text).map # {}
  THEN JSONparse(file.text)
  ELSE Obj(DEFAULT_NETWORKS)

\* loadNetworksFromCache
loadNetworksFromCache(file) ==
  IF file.st = "text" /\ ~ParseThrows(file.text)
  THEN JSONparse(file.text)
  ELSE Obj(DEFAULT_NETWORKS)

\* A record of the directory response; isNull marks a null entry.
Rec(name, eco) == [isNull |-> FALSE, name |-> name, ecosystem |-> eco]
NullRec == [isNull |-> TRUE, name |-> "", ecosystem |-> ""]

EvmRecs(names) == ToPairs([n \in names |-> "evm"])
RECURSIVE AsRecs(_)
AsRecs(ps) ==
  IF ps = <<>> THEN <<>> ELSE <<Rec(Head(ps)[1], Head(ps)[2])>> \o AsRecs(Tail(ps))

\* what the request to NETWORKS_API_URL may come to
Ok(body) == [kind |-> "ok", isArray |-> TRUE, records |-> body]
Responses ==
  {[kind |-> "transport", isArray |-> FALSE, records |-> <<>>],
   [kind |-> "status", isArray |-> FALSE, records |-> <<>>],
   [kind |-> "unparsable", isArray |-> FALSE, records |-> <<>>],
   [kind |-> "ok", isArray |-> FALSE, records |-> <<>>],
   Ok(<<>>),
   Ok(<<Rec("gnosis", "evm")>>),
   Ok(<<Rec("eth", "evm"), Rec("fuel", "fuel")>>),
   Ok(<<Rec("gnosis", "evm"), NullRec>>),
   Ok(AsRecs(EvmRecs(DefaultNames)) \o <<Rec("fuel", "fuel")>>),
   Ok(AsRecs(EvmRecs(DefaultNames \cup ExtraNames)))}

\* Transform without the test of the ecosystem
RECURSIVE TransformKeepsAll(_, _)
TransformKeepsAll(records, result) ==
  IF records = <<>> THEN [threw |-> FALSE, result |-> result]
  ELSE LET network == Head(records)
       IN IF network.isNull THEN [threw |-> TRUE, result |-> result]
          ELSE TransformKeepsAll(Tail(records),
                                 (network.name :> Url(network.name)) @@
                                   [x \in DOMAIN result \ {network.name} |-> result[x]])

\* networks.forEach(...): the result built so far and whether a record
\* raised a TypeError
RECURSIVE Transform(_, _)
Transform(records, result) ==
  IF records = <<>> THEN [threw |-> FALSE, result |-> result]
  ELSE LET network == Head(records)
       IN IF network.isNull THEN [threw |-> TRUE, result |-> result]
          ELSE IF network.ecosystem # "evm" THEN Transform(Tail(records), result)
          ELSE Transform(Tail(records),
                         (network.name :> Url(network.name)) @@
                           [x \in DOMAIN result \ {network.name} |-> result[x]])

\* the try block of fetchNetworks reaches its return
DiscoveryOk(resp) ==
  /\ resp.kind = "ok"
  /\ resp.isArray
  /\ ~Transform(resp.records, EmptyMap).threw

\* partial: what the result object of fetchNetworks held when its try block
\* was left by an error
Call(op, force, path, name, ok) ==
  [op |-> op, force |-> force, path |-> path, name |-> name, ok |-> ok,
   partial |-> EmptyMap]
Partial(resp) ==
  IF resp.kind = "ok" /\ resp.isArray
  THEN Transform(resp.records, EmptyMap).result ELSE EmptyMap
NoCall == Call("none", FALSE, "none", "", TRUE)

Returned(v) == [kind |-> "returned", val |-> v]
Raised == [kind |-> "raised", val |-> JsonNull]
NoRet == [kind |-> "none", val |-> JsonNull]

\* what getNetworkUrl returned, or the rejected name and the known names its
\* error message carries
NoUrl == [kind |-> "none", url |-> <<>>, name |-> "", known |-> <<>>]
UrlReturned(url) == [kind |-> "returned", url |-> url, name |-> "", known |-> <<>>]
UrlRaised(network, known) ==
  [kind |-> "raised", url |-> <<>>, name |-> network, known |-> known]

\* no discovery has succeeded yet
NoDiscovery == [run |-> 0, records |-> <<>>, result |-> EmptyMap, written |-> FALSE]

\* The caller.  A program that imports the library calls the registry as it
\* likes.  The command line program calls fetchNetworks() in main, then in
\* its action handler fetchNetworks(true) with --refresh-networks and
\* fetchNetworks() without, then exits 0 if a list was asked for
\* (--list-networks or --list-presets), then calls getNetworkUrl, chooses the
\* event signatures and calls createScanner; an error thrown by a call ends
\* it with code 1.
\* eventSignatures of the action handler: undefined, or a list of signatures
UndefinedSigs == [defined |-> FALSE, sigs |-> <<>>]
Sigs(list) == [defined |-> TRUE, sigs |-> list]

Library ==
  [pc |-> "library", refreshNetworks |-> FALSE, list |-> FALSE, network |-> "",
   exitCode |-> -1, networkUrl |-> <<>>, preset |-> "", custom |-> FALSE, refreshed |-> FALSE,
   presetArg |-> "",
   eventSignatures |-> UndefinedSigs]
\* network is options.network || networkArg || "eth"
CliStart(refresh, list, network) ==
  [pc |-> "main", refreshNetworks |-> refresh, list |-> list, network |-> network,
   exitCode |-> -1, networkUrl |-> <<>>, preset |-> "", custom |-> FALSE, refreshed |-> FALSE,
   presetArg |-> "",
   eventSignatures |-> UndefinedSigs]
Goto(p) == [cli EXCEPT !.pc = p]
Exit(code) == [cli EXCEPT !.pc = "exited", !.exitCode = code]

\* CliStep going on after getNetworkUrl threw
CliStepGoesOn(op, force, ok) ==
  IF cli.pc = "library" THEN cli' = cli
  ELSE IF cli.pc = "main"
  THEN /\ op = "fetch"
       /\ ~force
       /\ cli' = IF ok THEN Goto("action") ELSE Exit(1)
  ELSE IF cli.pc = "action"
  THEN /\ op = "fetch"
       /\ force = cli.refreshNetworks
       /\ cli' = IF ~ok THEN Exit(1)
                 ELSE [(IF cli.list THEN Exit(0) ELSE Goto("resolve"))
                         EXCEPT !.refreshed = cli.refreshNetworks]
  ELSE IF cli.pc = "resolve"
  THEN /\ op = "resolve"
       /\ lastCall'.name = cli.network
       /\ cli' = [cli EXCEPT !.pc = "resolved", !.networkUrl = urlRet'.url]
  ELSE FALSE

\* the caller makes the call op, which ends well (ok) or throws; refreshed
\* tells that "Networks refreshed successfully!" was printed
CliStep(op, force, ok) ==
  IF cli.pc = "library" THEN cli' = cli
  ELSE IF cli.pc = "main"
  THEN /\ op = "fetch"
       /\ ~force
       /\ cli' = IF ok THEN Goto("action") ELSE Exit(1)
  ELSE IF cli.pc = "action"
  THEN /\ op = "fetch"
       /\ force = cli.refreshNetworks
       /\ cli' = IF ~ok THEN Exit(1)
                 ELSE [(IF cli.list THEN Exit(0) ELSE Goto("resolve"))
                         EXCEPT !.refreshed = cli.refreshNetworks]
  ELSE IF cli.pc = "resolve"
  THEN /\ op = "resolve"
       /\ lastCall'.name = cli.network
       /\ cli' = IF ok THEN [cli EXCEPT !.pc = "resolved", !.networkUrl = urlRet'.url]
                 ELSE Exit(1)
  ELSE FALSE

\* ModuleLoad taking the cache only when it holds more than the defaults
ModuleLoadLargerOnly ==
  /\ ~loaded
  /\ loaded' = TRUE
  /\ LET cachedNetworks == loadNetworksFromCache(cacheFile)
     IN NETWORKS' = IF ~KeysThrows(cachedNetworks)
                       /\ Cardinality(Keys(cachedNetworks)) > Cardinality(DefaultNames)
                    THEN Spread(cachedNetworks)
                    ELSE DEFAULT_NETWORKS
  /\ lastCall' = Call("load", FALSE, "none", "", TRUE)
  /\ effects' = <<"read">>
  /\ UNCHANGED <<cacheFile, fetchRet, apiRequests, run, lastDiscovery, cli>>
  /\ urlRet' = NoUrl
  /\ UNCHANGED scanVars

\* ModuleLoad adding the cache's entries to the defaults
ModuleLoadMerges ==
  /\ ~loaded
  /\ loaded' = TRUE
  /\ LET cachedNetworks == loadNetworksFromCache(cacheFile)
     IN NETWORKS' = IF ~KeysThrows(cachedNetworks)
                       /\ Cardinality(Keys(cachedNetworks)) > 0
                    THEN Spread(cachedNetworks) @@ DEFAULT_NETWORKS
                    ELSE DEFAULT_NETWORKS
  /\ lastCall' = Call("load", FALSE, "none", "", TRUE)
  /\ effects' = <<"read">>
  /\ UNCHANGED <<cacheFile, fetchRet, apiRequests, run, lastDiscovery, cli>>
  /\ urlRet' = NoUrl
  /\ UNCHANGED scanVars

\* export let NETWORKS = { ...DEFAULT_NETWORKS }, then the module-level
\* try block that loads the cache
ModuleLoad ==
  /\ ~loaded
  /\ loaded' = TRUE
  /\ LET cachedNetworks == loadNetworksFromCache(cacheFile)
     IN NETWORKS' = IF ~KeysThrows(cachedNetworks)
                       /\ Cardinality(Keys(cachedNetworks)) > 0
                    THEN Spread(cachedNetworks)
                    ELSE DEFAULT_NETWORKS
  /\ lastCall' = Call("load", FALSE, "none", "", TRUE)
  /\ effects' = <<"read">>
  /\ UNCHANGED <<cacheFile, fetchRet, apiRequests, run, lastDiscovery, cli>>
  /\ urlRet' = NoUrl
  /\ UNCHANGED scanVars

\* fetchNetworks(false) answered from the cache, or raising in Object.keys
FetchFromCache ==
  /\ loaded
  /\ LET cachedNetworks == loadNetworksFromCache(cacheFile)
     IN IF KeysThrows(cachedNetworks)
        THEN /\ fetchRet' = Raised
             /\ lastCall' = Call("fetch", FALSE, "raised", "", FALSE)
             /\ CliStep("fetch", FALSE, FALSE)
             /\ UNCHANGED NETWORKS
        ELSE /\ Cardinality(Keys(cachedNetworks)) > Cardinality(Keys(Obj(DEFAULT_NETWORKS)))
             /\ NETWORKS' = Spread(cachedNetworks)
             /\ fetchRet' = Returned(cachedNetworks)
             /\ lastCall' = Call("fetch", FALSE, "cache", "", TRUE)
             /\ CliStep("fetch", FALSE, TRUE)
  /\ effects' = <<"read">>
  /\ UNCHANGED <<cacheFile, loaded, apiRequests, run, lastDiscovery>>
  /\ urlRet' = NoUrl
  /\ UNCHANGED scanVars

\* fetchNetworks reaches its try block
Discovers(forceRefresh) ==
  \/ forceRefresh
  \/ LET cachedNetworks == loadNetworksFromCache(cacheFile)
     IN /\ ~KeysThrows(cachedNetworks)
        /\ Cardinality(Keys(cachedNetworks)) <= Cardinality(Keys(Obj(DEFAULT_NETWORKS)))

\* BeforeTry with the cache loaded whether or not the refresh is forced
BeforeTryLoads(forceRefresh) == <<"read">>

\* what fetchNetworks does before its try block: the cache is loaded unless
\* the refresh is forced
BeforeTry(forceRefresh) == IF forceRefresh THEN <<>> ELSE <<"read">>

\* FetchDiscovered with the result merged into the snapshot
FetchDiscoveredMerges(forceRefresh, resp, writeOk) ==
  /\ loaded
  /\ apiRequests < MaxRequests
  /\ Discovers(forceRefresh)
  /\ DiscoveryOk(resp)
  /\ apiRequests' = apiRequests + 1
  /\ LET result == Transform(resp.records, EmptyMap).result
     IN /\ NETWORKS' = result @@ NETWORKS
        /\ cacheFile' = IF writeOk THEN File(JSONstringify(Obj(result))) ELSE cacheFile
        /\ fetchRet' = Returned(Obj(result))
        /\ lastDiscovery' = [run |-> run, records |-> resp.records, result |-> result,
                             written |-> writeOk]
  /\ lastCall' = Call("fetch", forceRefresh, "discovered", "", TRUE)
  /\ effects' = BeforeTry(forceRefresh) \o <<"request", "write">>
  /\ CliStep("fetch", forceRefresh, TRUE)
  /\ UNCHANGED <<loaded, run>>
  /\ urlRet' = NoUrl
  /\ UNCHANGED scanVars

\* fetchNetworks with a live discovery that succeeds; writeOk tells whether
\* fs.writeFileSync succeeds
FetchDiscovered(forceRefresh, resp, writeOk) ==
  /\ loaded
  /\ apiRequests < MaxRequests
  /\ Discovers(forceRefresh)
  /\ DiscoveryOk(resp)
  /\ apiRequests' = apiRequests + 1
  /\ LET result == Transform(resp.records, EmptyMap).result
     IN /\ NETWORKS' = result
        /\ cacheFile' = IF writeOk THEN File(JSONstringify(Obj(result))) ELSE cacheFile
        /\ fetchRet' = Returned(Obj(result))
        /\ lastDiscovery' = [run |-> run, records |-> resp.records, result |-> result,
                             written |-> writeOk]
  /\ lastCall' = Call("fetch", forceRefresh, "discovered", "", TRUE)
  /\ effects' = BeforeTry(forceRefresh) \o <<"request", "write">>
  /\ CliStep("fetch", forceRefresh, TRUE)
  /\ UNCHANGED <<loaded, run>>
  /\ urlRet' = NoUrl
  /\ UNCHANGED scanVars

\* FetchFallback without the assignment to NETWORKS
FetchFallbackKeeps(forceRefresh, resp) ==
  /\ loaded
  /\ apiRequests < MaxRequests
  /\ Discovers(forceRefresh)
  /\ ~DiscoveryOk(resp)
  /\ apiRequests' = apiRequests + 1
  /\ fetchRet' = Returned(loadNetworksFromCache(cacheFile))
  /\ lastCall' = [Call("fetch", forceRefresh, "fallback", "", TRUE)
                    EXCEPT !.partial = Partial(resp)]
  /\ effects' = BeforeTry(forceRefresh) \o <<"request", "read">>
  /\ CliStep("fetch", forceRefresh, TRUE)
  /\ UNCHANGED <<NETWORKS, cacheFile, loaded, run, lastDiscovery>>
  /\ urlRet' = NoUrl
  /\ UNCHANGED scanVars

\* FetchFallback with the value fallen back on saved to the cache
FetchFallbackSaves(forceRefresh, resp) ==
  /\ loaded
  /\ apiRequests < MaxRequests
  /\ Discovers(forceRefresh)
  /\ ~DiscoveryOk(resp)
  /\ apiRequests' = apiRequests + 1
  /\ LET cachedNetworks == loadNetworksFromCache(cacheFile)
     IN /\ NETWORKS' = Spread(cachedNetworks)
        /\ fetchRet' = Returned(cachedNetworks)
        /\ cacheFile' = File(JSONstringify(cachedNetworks))
  /\ lastCall' = [Call("fetch", forceRefresh, "fallback", "", TRUE)
                    EXCEPT !.partial = Partial(resp)]
  /\ effects' = BeforeTry(forceRefresh) \o <<"request", "read">>
  /\ CliStep("fetch", forceRefresh, TRUE)
  /\ UNCHANGED <<loaded, run, lastDiscovery>>
  /\ urlRet' = NoUrl
  /\ UNCHANGED scanVars

\* FetchFallback keeping what the try block had put into the result
FetchFallbackKeepsPartial(forceRefresh, resp) ==
  /\ loaded
  /\ apiRequests < MaxRequests
  /\ Discovers(forceRefresh)
  /\ ~DiscoveryOk(resp)
  /\ apiRequests' = apiRequests + 1
  /\ LET cachedNetworks == loadNetworksFromCache(cacheFile)
     IN /\ NETWORKS' = Partial(resp) @@ Spread(cachedNetworks)
        /\ fetchRet' = Returned(cachedNetworks)
  /\ lastCall' = [Call("fetch", forceRefresh, "fallback", "", TRUE)
                    EXCEPT !.partial = Partial(resp)]
  /\ effects' = BeforeTry(forceRefresh) \o <<"request", "read">>
  /\ CliStep("fetch", forceRefresh, TRUE)
  /\ UNCHANGED <<cacheFile, loaded, run, lastDiscovery>>
  /\ urlRet' = NoUrl
  /\ UNCHANGED scanVars

\* fetchNetworks with a live discovery that fails: the catch block
FetchFallback(forceRefresh, resp) ==
  /\ loaded
  /\ apiRequests < MaxRequests
  /\ Discovers(forceRefresh)
  /\ ~DiscoveryOk(resp)
  /\ apiRequests' = apiRequests + 1
  /\ LET cachedNetworks == loadNetworksFromCache(cacheFile)
     IN /\ NETWORKS' = Spread(cachedNetworks)
        /\ fetchRet' = Returned(cachedNetworks)
  /\ lastCall' = [Call("fetch", forceRefresh, "fallback", "", TRUE)
                    EXCEPT !.partial = Partial(resp)]
  /\ effects' = BeforeTry(forceRefresh) \o <<"request", "read">>
  /\ CliStep("fetch", forceRefresh, TRUE)
  /\ UNCHANGED <<cacheFile, loaded, run, lastDiscovery>>
  /\ urlRet' = NoUrl
  /\ UNCHANGED scanVars

\* the properties every object has from Object.prototype, own or not
ObjectPrototype == {"constructor", "toString"}
Inherited == <<"[native code]">>
Undefined == <<>>

\* obj[key]: the own property, else the inherited one, else undefined
Get(obj, key) ==
  IF key \in DOMAIN obj THEN obj[key]
  ELSE IF key \in ObjectPrototype THEN Inherited ELSE Undefined

\* !NETWORKS[network]: undefined and "" are falsy
Unsupported(networks, network) == Get(networks, network) = <<>>

\* Object.keys(NETWORKS)
RECURSIVE KeySeq(_)
KeySeq(pairs) ==
  IF pairs = <<>> THEN <<>> ELSE <<Head(pairs)[1]>> \o KeySeq(Tail(pairs))

\* .slice(0, 10)
Slice10(seq) == SubSeq(seq, 1, IF Len(seq) < KnownShown THEN Len(seq) ELSE KnownShown)

\* getNetworkUrl(network)
GetNetworkUrl(network) ==
  /\ loaded
  /\ lastCall' = Call("resolve", FALSE, "none", network, ~Unsupported(NETWORKS, network))
  /\ effects' = <<>>
  /\ urlRet' = IF Unsupported(NETWORKS, network)
               THEN UrlRaised(network, Slice10(KeySeq(ToPairs(NETWORKS))))
               ELSE UrlReturned(Get(NETWORKS, network))
  /\ CliStep("resolve", FALSE, ~Unsupported(NETWORKS, network))
  /\ UNCHANGED <<NETWORKS, cacheFile, loaded, fetchRet, apiRequests, run,
                 lastDiscovery>>
  /\ UNCHANGED scanVars

\* the names getNetworkUrl is called with
QueryNames ==
  DefaultNames \cup ExtraNames \cup {"nonexistent-network", "0", "ETH", "constructor"}

\* the network names given on the command line
CliNetworks == {"eth", "gnosis", "nonexistent-network", "constructor"}

\* The process ends and another one starts: the module state and the scan are
\* gone, the cache file stays.
Restart ==
  /\ loaded
  /\ run < MaxRuns
  /\ run' = run + 1
  /\ loaded' = FALSE
  /\ NETWORKS' = EmptyMap
  /\ fetchRet' = NoRet
  /\ apiRequests' = 0
  /\ lastCall' = NoCall
  /\ effects' = <<>>
  /\ cli' \in IF cli.pc = "library" THEN {Library}
              ELSE {CliStart(r, l, n) : r \in BOOLEAN, l \in BOOLEAN, n \in CliNetworks}
  /\ UNCHANGED <<cacheFile, lastDiscovery>>
  /\ urlRet' = NoUrl
  /\ pc' = "idle"
  /\ eventSignatures' = <<>>
  /\ topic0ToName' = EmptyMap
  /\ eventCounts' = BaseCounts
  /\ fromBlock' = 0
  /\ height' = 0
  /\ progress' = Zero
  /\ res' = NoRes
  /\ error' = "none"
  /\ exitCode' = -1
  /\ lastAwait' = "none"
  /\ heightFetches' = 0
  /\ sessions' = 0
  /\ recvIssued' = 0
  /\ srvBlock' = 0

\* before config.js is loaded for the first time
RegStart ==
  /\ NETWORKS = EmptyMap
  /\ cacheFile \in CacheFiles
  /\ loaded = FALSE
  /\ fetchRet = NoRet
  /\ apiRequests = 0
  /\ lastCall = NoCall
  /\ effects = <<>>
  /\ run = 1
  /\ lastDiscovery = NoDiscovery
  /\ urlRet = NoUrl

RegInit == RegStart /\ cli = Library

InitReg == ScanIdle /\ RegInit

NextReg ==
  \/ ModuleLoad
  \/ FetchFromCache
  \/ \E f \in BOOLEAN, r \in Responses, w \in BOOLEAN : FetchDiscovered(f, r, w)
  \/ \E f \in BOOLEAN, r \in Responses : FetchFallback(f, r)
  \/ \E n \in QueryNames : GetNetworkUrl(n)
  \/ Restart

SpecReg == InitReg /\ [][NextReg]_vars

\* the command line program: main() of the bin script
InitCli ==
  /\ ScanIdle
  /\ RegStart
  /\ cli \in {CliStart(r, l, n) : r \in BOOLEAN, l \in BOOLEAN, n \in CliNetworks}

\* EVENT_PRESETS, each preset by its signatures
EVENT_PRESETS ==
  [p \in {"uniswap-v3", "erc20", "erc721"} |->
     CASE p = "uniswap-v3" ->
            <<SigPoolCreated, SigBurn, SigInitialize, SigMint, SigSwap>>
       [] p = "erc20" -> <<SigTransfer, SigApproval>>
       [] p = "erc721" -> <<SigTransfer, SigApproval, SigApprovalForAll>>]

\* hasPreset(presetName): Boolean(EVENT_PRESETS[presetName])
hasPreset(presetName) ==
  presetName \in DOMAIN EVENT_PRESETS \/ presetName \in ObjectPrototype

\* getEventSignatures(presetName), called after hasPreset said yes: the
\* signatures property of the preset, undefined for an inherited property
getEventSignatures(presetName) ==
  IF presetName \in DOMAIN EVENT_PRESETS
  THEN Sigs(EVENT_PRESETS[presetName]) ELSE UndefinedSigs

\* the preset argument ("" when none is given) and the --events option
\* (empty when none is given)
PresetArgs == {"", "erc20", "erc721", "nonexistent-preset", "constructor"}
CustomEvents == {<<>>, <<SigTotal>>, <<SigTransfer, SigTransfer2>>}

\* SelectEvents looking the preset up before it looks at --events
SelectEventsChecksPreset(presetArg, events, verbose) ==
  /\ cli.pc = "resolved"
  /\ LET preset == IF presetArg = "" THEN "uniswap-v3" ELSE presetArg
         given == [cli EXCEPT !.presetArg = presetArg]
         chosen == [given EXCEPT !.preset = preset]
     IN cli' = IF ~hasPreset(preset)
               THEN [chosen EXCEPT !.pc = "exited", !.exitCode = 1]
               ELSE IF Len(events) > 0
               THEN [given EXCEPT !.pc = "start", !.custom = TRUE,
                                  !.eventSignatures = Sigs(events)]
               ELSE IF verbose /\ ~getEventSignatures(preset).defined
               THEN [chosen EXCEPT !.pc = "exited", !.exitCode = 1]
               ELSE [chosen EXCEPT !.pc = "start",
                                   !.eventSignatures = getEventSignatures(preset)]
  /\ UNCHANGED <<NETWORKS, cacheFile, loaded, fetchRet, apiRequests, lastCall,
                 effects, run, lastDiscovery, urlRet>>
  /\ UNCHANGED scanVars

\* the action handler chooses the signatures: the --events option, else the
\* preset; --verbose reads eventSignatures.length.  presetArg keeps the
\* argument as it was given, preset the name the handler looked up
SelectEvents(presetArg, events, verbose) ==
  /\ cli.pc = "resolved"
  /\ LET preset == IF presetArg = "" THEN "uniswap-v3" ELSE presetArg
         given == [cli EXCEPT !.presetArg = presetArg]
         chosen == [given EXCEPT !.preset = preset]
     IN cli' = IF Len(events) > 0
               THEN [given EXCEPT !.pc = "start", !.custom = TRUE,
                                  !.eventSignatures = Sigs(events)]
               ELSE IF ~hasPreset(preset)
               THEN [chosen EXCEPT !.pc = "exited", !.exitCode = 1]
               ELSE IF verbose /\ ~getEventSignatures(preset).defined
               THEN [chosen EXCEPT !.pc = "exited", !.exitCode = 1]
               ELSE [chosen EXCEPT !.pc = "start",
                                   !.eventSignatures = getEventSignatures(preset)]
  /\ UNCHANGED <<NETWORKS, cacheFile, loaded, fetchRet, apiRequests, lastCall,
                 effects, run, lastDiscovery, urlRet>>
  /\ UNCHANGED scanVars

\* HypersyncClient.new({ url: networkUrl }) takes a string for the url
ClientNewThrows(networkUrl) == networkUrl = Inherited

\* await createScanner({ networkUrl, eventSignatures, title }): the scan
\* starts and the handler waits for it
CliCreateScanner(sigs) ==
  /\ cli.pc = "start"
  /\ ~ClientNewThrows(cli.networkUrl)
  /\ cli.eventSignatures = Sigs(sigs)
  /\ CreateScanner(sigs)

\* createScanner throws before its try block, at HypersyncClient.new or at
\* eventSignatures.map; the handler's catch ends the process with code 1
CliCreateScannerThrows ==
  /\ cli.pc = "start"
  /\ pc = "idle"
  /\ ClientNewThrows(cli.networkUrl) \/ ~cli.eventSignatures.defined
  /\ cli' = Exit(1)
  /\ UNCHANGED <<NETWORKS, cacheFile, loaded, fetchRet, apiRequests, lastCall,
                 effects, run, lastDiscovery, urlRet>>
  /\ UNCHANGED scanVars

\* the signature lists the command line program can start a scan with
CliSigLists == {EVENT_PRESETS[p] : p \in DOMAIN EVENT_PRESETS} \cup (CustomEvents \ {<<>>})

NextCli ==
  \/ ModuleLoad
  \/ FetchFromCache
  \/ \E f \in BOOLEAN, r \in Responses, w \in BOOLEAN : FetchDiscovered(f, r, w)
  \/ \E f \in BOOLEAN, r \in Responses : FetchFallback(f, r)
  \/ \E n \in CliNetworks : GetNetworkUrl(n)
  \/ \E p \in PresetArgs, e \in CustomEvents, v \in BOOLEAN : SelectEvents(p, e, v)
  \/ \E sigs \in CliSigLists : CliCreateScanner(sigs)
  \/ CliCreateScannerThrows
  \/ Restart

SpecCli == InitCli /\ [][NextCli]_vars

\* The cache functions on their own.  The snapshots passed to
\* saveNetworksToCache:
Snapshots ==
  {[n \in S |-> Url(n)] : S \in SUBSET (ExtraNames \cup {"eth", "base"})}
    \cup {DEFAULT_NETWORKS, [n \in {"eth"} |-> CustomUrl]}

\* saveNetworksToCache(NETWORKS); writeOk tells whether fs.writeFileSync
\* succeeds
saveNetworksToCache(writeOk) ==
  /\ cacheFile' = IF writeOk THEN File(JSONstringify(Obj(NETWORKS))) ELSE cacheFile
  /\ lastCall' = Call("save", FALSE, "none", "", writeOk)
  /\ effects' = <<"write">>
  /\ UNCHANGED <<NETWORKS, loaded, fetchRet, apiRequests, run, lastDiscovery, cli>>
  /\ urlRet' = NoUrl
  /\ UNCHANGED scanVars

\* a call of loadNetworksFromCache(); path tells whether it follows a save
\* that was written
LoadCache ==
  /\ fetchRet' = Returned(loadNetworksFromCache(cacheFile))
  /\ lastCall' = Call("loadCache", FALSE,
                      IF lastCall.op = "save" /\ lastCall.ok THEN "saved" ELSE "none",
                      "", TRUE)
  /\ effects' = <<"read">>
  /\ UNCHANGED <<NETWORKS, cacheFile, loaded, apiRequests, run, lastDiscovery, cli>>
  /\ urlRet' = NoUrl
  /\ UNCHANGED scanVars

InitCache ==
  /\ ScanIdle
  /\ NETWORKS \in Snapshots
  /\ cacheFile \in CacheFiles
  /\ loaded = TRUE
  /\ fetchRet = NoRet
  /\ apiRequests = 0
  /\ lastCall = NoCall
  /\ effects = <<>>
  /\ run = 1
  /\ lastDiscovery = NoDiscovery
  /\ cli = Library
  /\ urlRet = NoUrl

NextCache ==
  \/ \E w \in BOOLEAN : saveNetworksToCache(w)
  \/ LoadCache

SpecCache == InitCache /\ [][NextCache]_vars

\* getNetworkUrl on its own, over the snapshots and one of eleven names
ManyNames ==
  DefaultNames \cup ExtraNames \cup {"linea", "scroll", "blast", "zora"}

ResolveSnapshots == Snapshots \cup {[n \in ManyNames |-> Url(n)]}

InitResolve ==
  /\ ScanIdle
  /\ NETWORKS \in ResolveSnapshots
  /\ cacheFile = NoFile
  /\ loaded = TRUE
  /\ fetchRet = NoRet
  /\ apiRequests = 0
  /\ lastCall = NoCall
  /\ effects = <<>>
  /\ run = 1
  /\ lastDiscovery = NoDiscovery
  /\ cli = Library
  /\ urlRet = NoUrl

NextResolve == \E n \in QueryNames \cup ManyNames : GetNetworkUrl(n)

\* fetchNetworks on its own, over every response of up to MaxRecords
\* records
DirectoryRecords ==
  {Rec(n, e) : n \in {"eth", "gnosis"}, e \in {"evm", "fuel"}}
    \cup {NullRec}

RECURSIVE SeqsUpTo(_, _)
SeqsUpTo(S, n) ==
  IF n = 0 THEN {<<>>}
  ELSE LET shorter == SeqsUpTo(S, n - 1)
       IN shorter \cup {Append(q, x) : q \in shorter, x \in S}

DirectoryResponses ==
  {Ok(body) : body \in SeqsUpTo(DirectoryRecords, MaxRecords)}
    \cup {[kind |-> "status", isArray |-> FALSE, records |-> <<>>]}

InitDiscover ==
  /\ ScanIdle
  /\ NETWORKS = DEFAULT_NETWORKS
  /\ cacheFile = NoFile
  /\ loaded = TRUE
  /\ fetchRet = NoRet
  /\ apiRequests = 0
  /\ lastCall = NoCall
  /\ effects = <<>>
  /\ run = 1
  /\ lastDiscovery = NoDiscovery
  /\ cli = Library
  /\ urlRet = NoUrl

NextDiscover ==
  \/ \E f \in BOOLEAN, r \in DirectoryResponses, w \in BOOLEAN : FetchDiscovered(f, r, w)
  \/ \E f \in BOOLEAN, r \in DirectoryResponses : FetchFallback(f, r)

SpecDiscover == InitDiscover /\ [][NextDiscover]_vars

SpecResolve == InitResolve /\ [][NextResolve]_vars

(***************************************************************************)
(* Claims                                                                  *)
(***************************************************************************)
RECURSIVE SumOver(_, _)
SumOver(f, keys) ==
  IF keys = {} THEN 0
  ELSE LET k == CHOOSE x \in keys : TRUE
       IN f[k] + SumOver(f, keys \ {k})

\* C1: in every state of a scan, eventCounts.Total equals the sum of all the
\* other counters (Unknown and the per-name counters), whatever the display
\* names of the signature list.
C1_TotalIsSum ==
  eventCounts["Total"] = SumOver(eventCounts, DOMAIN eventCounts \ {"Total"})

\* C2: once config.js is loaded, and after any fetchNetworks calls,
\* getNetworkUrl succeeds for every name of the built-in default set.
C2_DefaultsResolve ==
  loaded => \A n \in DefaultNames : ~Unsupported(NETWORKS, n)

UsableCache == cacheFile.st = "text" /\ cacheFile.text.t # "garbage"

\* C5: when the live discovery of a fetchNetworks call fails, the call
\* returns (it does not raise), and the value returned and the snapshot are
\* the persisted cache if there is one that can be read, the built-in
\* defaults otherwise.
C5_FallbackToCacheOrDefaults ==
  (lastCall.op = "fetch" /\ lastCall.path = "fallback") =>
    /\ fetchRet.kind = "returned"
    /\ IF UsableCache
       THEN /\ fetchRet.val.t = cacheFile.text.t
            /\ fetchRet.val.map = FromPairs(cacheFile.text.pairs)
            /\ NETWORKS = FromPairs(cacheFile.text.pairs)
       ELSE /\ fetchRet.val = Obj(DEFAULT_NETWORKS)
            /\ NETWORKS = DEFAULT_NETWORKS

\* a failed discovery fell back on a cache that holds a discovered network
C5_Witness ==
  /\ lastCall.op = "fetch"
  /\ lastCall.path = "fallback"
  /\ UsableCache
  /\ cacheFile.text.t = "object"
  /\ "gnosis" \in DOMAIN NETWORKS

\* C6: with a cache file that is absent, unreadable, no JSON, or JSON that
\* is no object, module load and fetchNetworks do not raise and behave as
\* with no cache: the load leaves the defaults, no call is answered from the
\* cache, a failed discovery falls back on the defaults.
C6_CorruptCacheIsEmpty ==
  (cacheFile.st # "text" \/ cacheFile.text.t # "object") =>
    /\ lastCall.op \in {"load", "fetch"} => lastCall.ok
    /\ lastCall.op = "load" => NETWORKS = DEFAULT_NETWORKS
    /\ lastCall.op = "fetch" => lastCall.path # "cache"
    /\ (lastCall.op = "fetch" /\ lastCall.path = "fallback") =>
         NETWORKS = DEFAULT_NETWORKS

ErrorOutcomes == {"heightError", "sessionError", "recvError"}

\* C7: an error of getHeight, of the session or of a receive moves the scan
\* to Failed, and in Failed no request is issued and no counter changes.
C7_FailedIsFinal ==
  [][/\ (pc \in {"getHeight", "stream", "recv"} /\ lastAwait' \in ErrorOutcomes)
          => (pc' = "failedWait" /\ error' # "none")
     /\ error # "none"
          => (/\ error' = error
              /\ pc' \in {"failedWait", "exited"}
              /\ UNCHANGED <<eventCounts, heightFetches, sessions, recvIssued>>)
    ]_vars

\* a receive failed after records were counted
C7_Witness ==
  /\ pc = "failedWait"
  /\ error = "recv"
  /\ eventCounts["Total"] > 0

\* C8: a scan that entered Failed ends with a non-zero exit code.
C8_FailedExitsNonZero ==
  (pc = "exited" /\ error # "none") => exitCode # 0

\* C9: receiving a batch without cursor changes no counter, not the cursor
\* and not the progress, leaves the scan streaming, and the next receive is
\* issued.
C9_NoCursorIsSkipped ==
  [][(pc = "recv" /\ lastAwait' = "nocursor") =>
        /\ eventCounts' = eventCounts
        /\ fromBlock' = fromBlock
        /\ progress' = progress
        /\ error' = "none"
        /\ pc' = "recv"
        /\ recvIssued' = recvIssued + 1
    ]_vars

\* a batch without cursor was skipped after records had been counted
C9_Witness ==
  /\ pc = "recv"
  /\ lastAwait = "nocursor"
  /\ eventCounts["Total"] > 0
  /\ fromBlock > 0

\* C10: on the end-of-stream sentinel the scan reaches Complete with
\* progress 1 and unchanged counters; all counters are 0 when no batch
\* preceded the sentinel.
C10_SentinelCompletes ==
  [][(pc = "recv" /\ lastAwait' = "null") =>
        /\ pc' = "completeWait"
        /\ progress' = One
        /\ eventCounts' = eventCounts
        /\ error' = "none"
        /\ recvIssued = 1 => \A k \in DOMAIN eventCounts' : eventCounts'[k] = 0
    ]_vars

\* the sentinel came first, with height 0
C10_Witness ==
  /\ pc = "completeWait"
  /\ height = 0
  /\ recvIssued = 1
  /\ progress = One
  /\ eventCounts["Total"] = 0

\* the records of a batch that are counted: the runs behind the null entries
CountedRuns(b) == SelectSeq(b.data.logs, LAMBDA r : r.rec.kind # "null")

\* the display name of the configured signature whose identifier is the
\* record's first topic, Unknown when there is no such topic or signature
ClaimedName(sigs, log) ==
  IF log.topics.t # "array" \/ log.topics.items = <<>> THEN "Unknown"
  ELSE LET hits == {i \in 1..Len(sigs) : Keccak256(sigs[i]) = log.topics.items[1]}
       IN IF hits = {} THEN "Unknown"
          ELSE SplitName(sigs[CHOOSE i \in hits : TRUE])

\* C11: every counted record of a batch adds one to exactly one
\* classification counter: the counter of the display name of the configured
\* signature its first topic identifies, Unknown when it has no usable first
\* topic or the topic identifies no configured signature; no other per-name
\* counter changes.
C11_OneClassificationCounter ==
  [][\A b \in Batches(eventSignatures, srvBlock) :
       (RecvBatch(b) /\ Len(CountedRuns(b)) = 1) =>
         LET counted == CountedRuns(b)[1]
             name == ClaimedName(eventSignatures, counted.rec)
         IN /\ name \in DOMAIN eventCounts
            /\ eventCounts'[name] = eventCounts[name] + counted.n
            /\ \A k \in DOMAIN eventCounts' \ {name, "Total"} :
                 k \in DOMAIN eventCounts /\ eventCounts'[k] = eventCounts[k]
    ]_vars

\* C12: a batch that carries a cursor adds to Total exactly the number of
\* entries of its data.logs sequence.
C12_TotalAddsEntries ==
  [][\A b \in Batches(eventSignatures, srvBlock) :
       RecvBatch(b) =>
         eventCounts'["Total"] = eventCounts["Total"] + LogsLength(b.data.logs)
    ]_vars

\* the set the records of a response describe: the names tagged evm, each
\* with its address
DiscoveredSet(resp) ==
  LET evm == {i \in 1..Len(resp.records) :
                ~resp.records[i].isNull /\ resp.records[i].ecosystem = "evm"}
  IN [n \in {resp.records[i].name : i \in evm} |-> Url(n)]

\* the cache file holds exactly the mapping m
CacheHolds(file, m) ==
  /\ file.st = "text"
  /\ file.text.t = "object"
  /\ FromPairs(file.text.pairs) = m

C14_SnapshotAnswersLaterFetch ==
  [][(lastDiscovery.run = run /\ lastCall'.op = "fetch" /\ ~lastCall'.force) =>
        /\ effects' = <<>>
        /\ fetchRet' = Returned(Obj(NETWORKS))
    ]_vars

\* the entries a cache file holds; a missing, unreadable or corrupt file
\* holds none
CacheEntries(file) ==
  IF file.st = "text" /\ file.text.t # "garbage"
  THEN DOMAIN FromPairs(file.text.pairs) ELSE {}

Requested(ops) == \E i \in DOMAIN ops : ops[i] = "request"

\* C15: fetchNetworks(false) returns the content of the cache file without a
\* request to the directory exactly when the cache holds more entries than
\* the built-in default set; otherwise it attempts the live discovery.
C15_CacheAnswersWhenLarger ==
  [][(lastCall'.op = "fetch" /\ ~lastCall'.force) =>
        IF Cardinality(CacheEntries(cacheFile)) > Cardinality(DefaultNames)
        THEN /\ ~Requested(effects')
             /\ fetchRet'.kind = "returned"
             /\ fetchRet'.val.map = FromPairs(cacheFile.text.pairs)
        ELSE Requested(effects')
    ]_vars

\* C16: fetchNetworks(true), which refreshNetworks calls, starts with the
\* request to the directory whatever the cache and the snapshot hold, and
\* reads the cache only when the discovery fails.
C16_ForcedRequestsFirst ==
  [][(lastCall'.op = "fetch" /\ lastCall'.force) =>
        /\ effects' # <<>>
        /\ effects'[1] = "request"
        /\ (\E i \in DOMAIN effects' : effects'[i] = "read")
             => lastCall'.path = "fallback"
    ]_vars

\* a forced refresh failed over a cache that an unforced call would have
\* answered from
C16_Witness ==
  /\ lastCall.op = "fetch"
  /\ lastCall.force
  /\ lastCall.path = "fallback"
  /\ effects = <<"request", "read">>
  /\ Cardinality(CacheEntries(cacheFile)) > Cardinality(DefaultNames)

\* C17: one invocation of the command line program without
\* --refresh-networks sends at most one request to the directory, whatever
\* the cache holds and however the request ends.
C17_OneRequestPerInvocation ==
  (cli.pc # "library" /\ ~cli.refreshNetworks) => apiRequests <= 1

\* C18: the cache file is written only by a live discovery that succeeds;
\* every other step (a refresh answered from the cache, a failed discovery,
\* the module load, getNetworkUrl, the steps of a scan, the start of another
\* process) leaves it as it is.
C18_OnlyDiscoveryWrites ==
  [][/\ cacheFile' # cacheFile
          => (lastCall'.op = "fetch" /\ lastCall'.path = "discovered")
     /\ (\E i \in DOMAIN effects' : effects'[i] = "write")
          => (lastCall'.op = "fetch" /\ lastCall'.path = "discovered")
    ]_vars

\* a discovery failed after one that had succeeded in the same run, and the
\* cache still holds what the first one wrote
C18_Witness ==
  /\ lastCall.op = "fetch"
  /\ lastCall.path = "fallback"
  /\ lastDiscovery.run = run
  /\ lastDiscovery.result # EmptyMap
  /\ CacheHolds(cacheFile, lastDiscovery.result)

\* C19: a snapshot persisted with saveNetworksToCache and then loaded with
\* loadNetworksFromCache, nothing written in between, comes back as a mapping
\* identical to the one persisted, the empty snapshot included.
C19_CacheRoundTrip ==
  (lastCall.op = "loadCache" /\ lastCall.path = "saved") =>
     fetchRet = Returned(Obj(NETWORKS))

\* the empty snapshot was persisted over another cache and loaded again
C19_Witness ==
  /\ lastCall.op = "loadCache"
  /\ lastCall.path = "saved"
  /\ NETWORKS = EmptyMap
  /\ fetchRet = Returned(Obj(EmptyMap))

C21_ResolveExactOrRaise ==
  [][lastCall'.op = "resolve" =>
       LET name == lastCall'.name
       IN /\ NETWORKS' = NETWORKS
          /\ IF name \in DOMAIN NETWORKS
             THEN urlRet' = UrlReturned(NETWORKS[name])
             ELSE /\ urlRet'.kind = "raised"
                  /\ urlRet'.name = name
                  /\ Len(urlRet'.known) <= 10
                  /\ \A i \in DOMAIN urlRet'.known : urlRet'.known[i] \in DOMAIN NETWORKS
    ]_vars

\* the action handler has reached the choice of the network
NetworkChosen ==
  \/ cli.pc \in {"resolve", "resolved", "start"}
  \/ cli.pc = "exited" /\ lastCall.op = "resolve"

NetworkMissing == cli.network \notin DOMAIN NETWORKS

PresetMissing ==
  ~cli.custom /\ cli.preset # "" /\ cli.preset \notin DOMAIN EVENT_PRESETS

\* C22: once the action handler has chosen a network that is no key of the
\* snapshot, or without custom events a preset that is not registered, no
\* height fetch and no stream session is issued, the call of createScanner
\* can only throw, and the process exits with code 1.
C22_BadSelectionNeverScans ==
  (NetworkChosen /\ (NetworkMissing \/ PresetMissing)) =>
    /\ heightFetches = 0
    /\ sessions = 0
    /\ pc = "idle"
    /\ cli.pc = "exited" => cli.exitCode = 1
    /\ cli.pc = "start" =>
         ClientNewThrows(cli.networkUrl) \/ ~cli.eventSignatures.defined

\* an unregistered preset ended the run with code 1
C22_Witness ==
  /\ cli.pc = "exited"
  /\ cli.exitCode = 1
  /\ PresetMissing
  /\ ~NetworkMissing
  /\ heightFetches = 0

\* a network name that is no key of the snapshot passed getNetworkUrl, and
\* createScanner threw
C22_NetworkWitness ==
  /\ cli.pc = "exited"
  /\ cli.exitCode = 1
  /\ NetworkMissing
  /\ lastCall.op = "resolve"
  /\ lastCall.ok

\* C23: a scan asks for the height once, when createScanner starts, and the
\* height it was answered is the same in every later state of the scan.
C23_HeightFetchedOnce ==
  [][/\ heightFetches' = IF pc = "idle" /\ pc' # "idle" THEN 1 ELSE heightFetches
     /\ pc' # "idle" => heightFetches' = 1
     /\ pc \notin {"idle", "getHeight"} => height' = height
    ]_vars

\* a scan completed whose cursor went beyond the height it was answered
C23_Witness ==
  /\ pc = "completeWait"
  /\ heightFetches = 1
  /\ height = MaxHeight
  /\ fromBlock > height
  /\ recvIssued = MaxRecv

\* C24: once a batch has moved the cursor to the height answered at the
\* start or beyond it, no later step of the scan changes a counter (the
\* records of batches delivered after that point are not counted).
C24_NothingCountedPastHeight ==
  [][(pc \in {"recv", "decode"} /\ fromBlock > 0 /\ height <= fromBlock)
       => eventCounts' = eventCounts
    ]_vars

\* C25: a receive is issued only when none is unanswered: by the step that
\* opens the stream, by the step that takes the answer of the one before, or
\* after the sample decode of the batch before; while the decode is awaited
\* no receive is issued; and when the scan suspends in the decode of batch
\* k's sample, the counting has been applied to all records of batch k,
\* nothing of it being counted later.
C25_OneReceiveAtATime ==
  [][/\ recvIssued' \in {recvIssued, recvIssued + 1}
     /\ recvIssued' = recvIssued + 1 =>
           /\ pc' = "recv"
           /\ \/ pc = "stream"
              \/ pc = "decode"
              \/ pc = "recv" /\ lastAwait' \in {"batch", "nocursor"}
     /\ (pc = "recv" /\ pc' # "recv") => recvIssued' = recvIssued
     /\ pc = "decode" => eventCounts' = eventCounts
     /\ (pc = "recv" /\ pc' = "decode") =>
           eventCounts' = CountLogs(eventCounts, topic0ToName, res'.data.logs)
    ]_vars

\* the second batch is counted, its sample is being decoded and the third
\* receive is not issued
C25_Witness ==
  /\ pc = "decode"
  /\ recvIssued = 2
  /\ eventCounts["Total"] >= SampleEvery

\* C26: at every suspension of the scanner (the height, the session, the
\* next batch, the sample decode, the wait after completion or failure) a
\* quit key can be taken; taking it ends the process and changes no counter
\* and no cursor, and once the process has ended nothing changes any more, so
\* a batch that was awaited then is never counted.
C26_QuitExitsAndCountsNothing ==
  [][/\ pc \in {"getHeight", "stream", "recv", "decode", "completeWait", "failedWait"}
          => ENABLED QuitKey
     /\ lastAwait' = "key"
          => /\ pc' = "exited"
             /\ eventCounts' = eventCounts
             /\ fromBlock' = fromBlock
             /\ recvIssued' = recvIssued
     /\ pc = "exited" => UNCHANGED scanVars
    ]_vars

\* the quit key came while the second batch was awaited, records of the
\* first being counted
C26_Witness ==
  /\ pc = "exited"
  /\ lastAwait = "key"
  /\ exitCode = 0
  /\ recvIssued = 2
  /\ error = "none"
  /\ res = NoRes
  /\ progress # One
  /\ eventCounts["Total"] > 0

\* the state of the scan as the specification names it; Exited: the process
\* has ended and with it the scanner
Phase ==
  CASE pc = "idle" -> "Idle"
    [] pc \in {"getHeight", "stream"} -> "Initializing"
    [] pc \in {"recv", "decode"} -> "Streaming"
    [] pc \in {"completeWait", "returned"} -> "Complete"
    [] pc = "failedWait" -> "Failed"
    [] pc = "exited" -> "Exited"

PhaseSteps ==
  {<<"Idle", "Initializing">>, <<"Initializing", "Streaming">>,
   <<"Streaming", "Complete">>, <<"Initializing", "Failed">>,
   <<"Streaming", "Failed">>}

\* C27: a step of the scan stays in its state, takes one of the five
\* transitions, or is the end of the process; from Complete and from Failed
\* no other state of the scan is entered and no receive is issued, and a
\* completed scan carries no error.
C27_OnlySpecifiedTransitions ==
  [][/\ \/ Phase' = Phase
        \/ <<Phase, Phase'>> \in PhaseSteps
        \/ Phase' = "Exited"
     /\ Phase \in {"Complete", "Failed"} =>
          /\ Phase' \in {Phase, "Exited"}
          /\ recvIssued' = recvIssued
          /\ eventCounts' = eventCounts
     /\ Phase' = "Complete" => error' = "none"
     /\ Phase = "Exited" => Phase' = "Exited"
    ]_vars

\* a scan that completed after its last receive, and whose long wait has
\* elapsed
C27_Witness ==
  /\ pc = "returned"
  /\ recvIssued = MaxRecv
  /\ error = "none"
  /\ progress = One

\* C28: the step in which the sample decode fails changes no counter, sets
\* no error, moves the cursor to the batch's nextBlock and issues the next
\* receive, as the step of a decode that succeeds does; and in the state
\* after it a further batch can be taken.
C28_DecodeFailureIsSkipped ==
  [][/\ lastAwait' = "decodeError" =>
          /\ pc = "decode"
          /\ eventCounts' = eventCounts
          /\ error' = error
          /\ pc' = "recv"
          /\ fromBlock' = res.nextBlock
          /\ progress' = Progress(res.nextBlock, height)
          /\ recvIssued' = recvIssued + 1
     /\ (lastAwait = "decodeError" /\ recvIssued < MaxRecv) =>
          ENABLED (\E b \in Batches(eventSignatures, srvBlock) : RecvBatch(b))
    ]_vars

\* the decode of the first batch's sample failed and the cursor stands at
\* that batch's nextBlock
C28_Witness ==
  /\ lastAwait = "decodeError"
  /\ pc = "recv"
  /\ recvIssued = 2
  /\ fromBlock > 0
  /\ eventCounts["Total"] = SampleEvery

\* C29: with a session that ends after finitely many batches with the
\* sentinel or an error, and a remote side that answers, every scan that was
\* started reaches Complete or Failed, unless a quit key ended the process
\* before.
C29_ScanEnds ==
  (pc = "getHeight") ~>
    \/ pc \in {"completeWait", "failedWait"}
    \/ pc = "exited" /\ lastAwait = "key"

\* the scan failed at its last receive, after batches were counted
C29_Witness ==
  /\ pc = "failedWait"
  /\ error = "recv"
  /\ recvIssued = MaxRecv
  /\ eventCounts["Total"] > 0

\* C30: the step that starts a scan leaves eventCounts with the keys Total,
\* Unknown and the display name of every signature, each at 0, and no later
\* step of the scan changes the set of keys.
C30_CounterKeysFixed ==
  [][/\ (pc = "idle" /\ pc' # "idle") =>
          /\ DOMAIN eventCounts' =
               {"Total", "Unknown"}
                 \cup {SplitName(eventSignatures'[i]) : i \in DOMAIN eventSignatures'}
          /\ \A k \in DOMAIN eventCounts' : eventCounts'[k] = 0
     /\ pc # "idle" => DOMAIN eventCounts' = DOMAIN eventCounts
    ]_vars

\* records of one of two names were counted; the other name's counter is
\* there, at 0
C30_Witness ==
  /\ pc = "recv"
  /\ lastAwait = "batch"
  /\ DOMAIN eventCounts = {"Total", "Unknown", "Transfer", "Approval"}
  /\ eventCounts["Transfer"] > 0
  /\ eventCounts["Approval"] = 0
  /\ eventCounts["Unknown"] > 0

\* the names of the records tagged "evm"
EvmNames(records) ==
  {records[i].name : i \in {j \in DOMAIN records : records[j].ecosystem = "evm"}}

\* C31: the step of a fetchNetworks whose discovery succeeds leaves and
\* returns a snapshot whose keys are the names of the records of the
\* response that are tagged "evm", each mapped to
\* http://<name>.hypersync.xyz.
C31_SnapshotIsEvmRecords ==
  [][(lastCall'.op = "fetch" /\ lastCall'.path = "discovered") =>
       /\ DOMAIN NETWORKS' = EvmNames(lastDiscovery'.records)
       /\ \A n \in DOMAIN NETWORKS' :
            NETWORKS'[n] = <<"http://", n, ".hypersync.xyz">>
       /\ fetchRet' = Returned(Obj(NETWORKS'))
    ]_vars

\* of two records with the same name the one tagged "evm" made the
\* snapshot, the other nothing
C31_Witness ==
  /\ lastCall.op = "fetch"
  /\ lastCall.path = "discovered"
  /\ lastDiscovery.records = <<Rec("eth", "fuel"), Rec("gnosis", "evm")>>
  /\ DOMAIN NETWORKS = {"gnosis"}
  /\ lastDiscovery.written

\* C32: once config.js is loaded, the snapshot is the built-in default set,
\* or the entries of the cache file as it was last read (the file changes
\* only when a discovery writes it), or the result of the last discovery
\* that succeeded in this process.
C32_SnapshotHasOneOrigin ==
  loaded =>
    \/ NETWORKS = DEFAULT_NETWORKS
    \/ NETWORKS = Spread(loadNetworksFromCache(cacheFile))
    \/ lastDiscovery.run = run /\ NETWORKS = lastDiscovery.result

\* after a discovery that failed the snapshot is the cache of an earlier
\* process, neither the defaults nor a discovery of this one
C32_Witness ==
  /\ loaded
  /\ lastCall.op = "fetch"
  /\ lastCall.path = "fallback"
  /\ NETWORKS # DEFAULT_NETWORKS
  /\ NETWORKS # EmptyMap
  /\ lastDiscovery.run # run
  /\ NETWORKS = Spread(loadNetworksFromCache(cacheFile))

\* C33: the step of a fetchNetworks whose discovery fails, whatever the try
\* block had put into its result before, leaves the cache file as it is and
\* the snapshot with the entries of the cache; a name of the partial result
\* is in the snapshot only if the cache holds it.
C33_PartialResultDiscarded ==
  [][(lastCall'.op = "fetch" /\ lastCall'.path = "fallback") =>
       /\ cacheFile' = cacheFile
       /\ lastDiscovery' = lastDiscovery
       /\ NETWORKS' = Spread(loadNetworksFromCache(cacheFile))
       /\ \A n \in DOMAIN lastCall'.partial :
            n \in DOMAIN NETWORKS' => n \in CacheEntries(cacheFile) \cup DefaultNames
    ]_vars

\* a record was transformed before the discovery failed, and its name is not
\* in the snapshot
C33_Witness ==
  /\ lastCall.op = "fetch"
  /\ lastCall.path = "fallback"
  /\ lastCall.partial # EmptyMap
  /\ \A n \in DOMAIN lastCall.partial : n \notin DOMAIN NETWORKS

\* the batches with a cursor that is not 0 and without records: data
\* absent, logs absent, logs empty
EmptyBatches(from) ==
  {[hasNext |-> TRUE, nextBlock |-> nb, data |-> d] :
     nb \in (from..MaxBlock) \ {0},
     d \in {[t |-> "absent", logs |-> <<>>],
            [t |-> "nologs", logs |-> <<>>],
            [t |-> "array", logs |-> <<>>]}}

\* C34: the step that takes a batch with a cursor and without records
\* changes no counter, moves the cursor to the batch's nextBlock, sets the
\* progress to min(nextBlock / height, 1) and issues the next receive.
C34_EmptyBatchAdvances ==
  [][\A b \in EmptyBatches(srvBlock) :
       RecvBatch(b) =>
         /\ eventCounts' = eventCounts
         /\ fromBlock' = b.nextBlock
         /\ progress' = MathMin1(Div(b.nextBlock, height))
         /\ pc' = "recv"
         /\ recvIssued' = recvIssued + 1
    ]_vars

\* a batch without counted records moved the cursor to the height
C34_Witness ==
  /\ pc = "recv"
  /\ lastAwait = "batch"
  /\ recvIssued = 2
  /\ eventCounts["Total"] = 0
  /\ height = MaxHeight
  /\ fromBlock = height
  /\ Leq(One, progress)
  /\ Leq(progress, One)

\* C35: no step that takes a batch with its cursor takes one whose
\* nextBlock is 0; the step that takes a batch without cursor is also the
\* step that takes any batch whose nextBlock is 0, and it changes no
\* counter, no cursor and no progress and goes on to the next receive.
C35_ZeroCursorIsNoCursor ==
  [][/\ (pc = "recv" /\ lastAwait' = "batch") =>
          /\ srvBlock' # 0
          /\ fromBlock' # 0 \/ pc' = "decode"
     /\ (pc = "recv" /\ lastAwait' = "nocursor") =>
          /\ \A d \in DataValuesFor[eventSignatures] :
               /\ RecvNoCursor([hasNext |-> TRUE, nextBlock |-> 0, data |-> d])
               /\ RecvNoCursor([hasNext |-> FALSE, nextBlock |-> 0, data |-> d])
          /\ eventCounts' = eventCounts
          /\ fromBlock' = fromBlock
          /\ progress' = progress
          /\ pc' = "recv"
          /\ recvIssued' = recvIssued + 1
    ]_vars

\* the first batch came with nextBlock 0 or none and left the scan as it
\* started
C35_Witness ==
  /\ pc = "recv"
  /\ lastAwait = "nocursor"
  /\ recvIssued = 2
  /\ srvBlock = 0
  /\ fromBlock = 0
  /\ progress = Zero
  /\ eventCounts["Total"] = 0
\* the display names of a signature list
DisplayNames(sigs) == {SplitName(sigs[i]) : i \in DOMAIN sigs}

\* the pairs of configured signatures that differ and share a display name
SharingPairs(sigs) ==
  {p \in (DOMAIN sigs) \X (DOMAIN sigs) :
     /\ sigs[p[1]] # sigs[p[2]]
     /\ SplitName(sigs[p[1]]) = SplitName(sigs[p[2]])}

\* the batches with a cursor whose records all bear the identifier of sig
BatchesOf(sig, from) ==
  {[hasNext |-> TRUE, nextBlock |-> nb,
    data |-> [t |-> "array",
              logs |-> <<[rec |-> Log(Topics(<<Keccak256(sig)>>)), n |-> n]>>]] :
      nb \in (from..MaxBlock) \ {0}, n \in RunLens}

\* C36: in a scan configured with two different signatures of one display
\* name, the two identifiers differ and both map to that name, the counters
\* besides Total and Unknown are one per distinct display name (fewer than
\* the signatures), and a batch of n records bearing either identifier adds
\* n to the counter of that name and nothing to Unknown.
C36_SharedNameSharedCounter ==
  [][\A p \in SharingPairs(eventSignatures) :
       LET name == SplitName(eventSignatures[p[1]])
       IN /\ Keccak256(eventSignatures[p[1]]) # Keccak256(eventSignatures[p[2]])
          /\ Keccak256(eventSignatures[p[1]]) \in DOMAIN topic0ToName
          /\ topic0ToName[Keccak256(eventSignatures[p[1]])] = name
          /\ Keccak256(eventSignatures[p[2]]) \in DOMAIN topic0ToName
          /\ topic0ToName[Keccak256(eventSignatures[p[2]])] = name
          /\ Cardinality(DOMAIN eventCounts \ {"Total", "Unknown"})
               = Cardinality(DisplayNames(eventSignatures) \ {"Total", "Unknown"})
          /\ Cardinality(DOMAIN eventCounts \ {"Total", "Unknown"})
               < Len(eventSignatures)
          /\ \A b \in BatchesOf(eventSignatures[p[1]], srvBlock) :
               RecvBatch(b) =>
                 /\ eventCounts'[name]
                      = eventCounts[name] + LogsLength(b.data.logs)
                 /\ eventCounts'["Unknown"] = eventCounts["Unknown"]
                 /\ DOMAIN eventCounts' = DOMAIN eventCounts
    ]_vars

\* a run of records bearing the second signature's identifier was counted
\* on the counter the first signature's records are counted on
C36_Witness ==
  /\ pc = "decode"
  /\ eventSignatures = <<SigTransfer, SigTransfer2>>
  /\ Head(res.data.logs).rec = Log(Topics(<<Keccak256(SigTransfer2)>>))
  /\ eventCounts["Transfer"] = eventCounts["Total"]
  /\ eventCounts["Transfer"] >= SampleEvery
  /\ DOMAIN eventCounts = {"Total", "Unknown", "Transfer"}

\* C37: the step of a run with --refresh-networks that prints "Networks
\* refreshed successfully!" is a forced call of fetchNetworks whose live
\* discovery succeeded, and it leaves the snapshot and the cache file with
\* the result of that discovery.
C37_RefreshedOnlyAfterDiscovery ==
  [][(~cli.refreshed /\ cli'.refreshed) =>
       /\ lastCall'.op = "fetch"
       /\ lastCall'.force
       /\ lastCall'.path = "discovered"
       /\ NETWORKS' = lastDiscovery'.result
       /\ lastDiscovery'.written
       /\ cacheFile' = File(JSONstringify(Obj(lastDiscovery'.result)))
    ]_vars

\* C38: with at least one signature given by --events, the selection step
\* goes on to the start of the scan with exactly those signatures whatever
\* the preset argument is, registered or not, and looks no preset up; the
\* scan that starts after it has those signatures as its eventSignatures.
C38_CustomEventsIgnorePreset ==
  [][/\ cli.pc = "resolved" =>
          \A p \in PresetArgs, e \in CustomEvents \ {<<>>}, v \in BOOLEAN :
            /\ ENABLED SelectEvents(p, e, v)
            /\ SelectEvents(p, e, v) =>
                 /\ cli'.pc = "start"
                 /\ cli'.exitCode = cli.exitCode
                 /\ cli'.eventSignatures = Sigs(e)
                 /\ cli'.preset = cli.preset
     /\ (cli.custom /\ pc = "idle" /\ pc' # "idle") =>
          /\ cli.eventSignatures.defined
          /\ eventSignatures' = cli.eventSignatures.sigs
    ]_vars

\* a scan runs with the two signatures given by --events, in a run whose
\* preset argument names no registered preset
C38_Witness ==
  /\ cli.custom
  /\ cli.presetArg = "nonexistent-preset"
  /\ ~hasPreset(cli.presetArg)
  /\ cli.preset = ""
  /\ cli.pc = "start"
  /\ cli.exitCode = -1
  /\ pc = "getHeight"
  /\ eventSignatures = <<SigTransfer, SigTransfer2>>
  /\ DOMAIN eventCounts = {"Total", "Unknown", "Transfer"}

====
